---- MODULE Spec2Model ----
(***************************************************************************)
(* Distance-Metrics: the banded discrete Frechet distance                  *)
(* (src/Frechet_distance/Frechet.hpp) and the randomised directed          *)
(* Hausdorff distance (src/Hausdorff distance/Hausdorff.hpp), each as a    *)
(* state machine whose steps are the statements and loop iterations of the *)
(* source.                                                                 *)
(*                                                                         *)
(* Numbers.  Coordinates are naturals and every point set below is chosen  *)
(* so that each sum of squared differences is a perfect square; Sqrt is    *)
(* then exactly std::sqrt on those values.                                 *)
(*                                                                         *)
(* Indices.  The code counts from 0 and TLA+ sequences from 1: At(s, k)    *)
(* is s[k] of the code.  A matrix is a function on the cells <<i, j>>.     *)
(*                                                                         *)
(* Undefined behaviour.  operator[] is unchecked.  A read past the end of  *)
(* a row or of a point either aborts (a hardened or sanitised build, or    *)
(* unmapped memory) or yields whatever the memory holds: both are offered. *)
(* A write past the end ends the call in a crash or in an arbitrary        *)
(* returned value.  The division n / m with m = 0 traps, or it yields 0    *)
(* and the first core-diagonal step then dereferences the null data        *)
(* pointer of an empty vector: either way the call crashes.                *)
(***************************************************************************)
EXTENDS Integers, Sequences, FiniteSets, TLC

\* ------------------------------------------------------------- bounds
\* Longest trajectory of the Frechet inputs over all points.
MaxLen == 3
\* Longest trajectory of the Frechet inputs that repeat one point.
MaxLongLen == 5
\* Longest trajectory of the Hausdorff inputs.
MaxLenH == 2
\* Longest trajectory of the inputs that break the preconditions.
MaxLenE == 2
\* How many elements past the end of a row a read can run before the
\* memory it reaches is unmapped.
MaxOverrun == 2

\* -------------------------------------------------- program constants
\* numeric_limits<T>::max() - 1, the "infinity" of computeFrechetMatrix.
NumericMax == 999
\* numeric_limits<T>::infinity(), the initial cMin of hausdorffDistance.
Infinity == 1000
\* The value of a local that was declared and never assigned (T d;).
Uninit == -1

\* ------------------------------------------------------------- inputs
Points1 == {<<0>>, <<1>>, <<2>>}
Points2 == {<<0, 0>>, <<3, 4>>}
PointsMixed == {<<0>>, <<3>>, <<3, 4>>}
\* What a read past the end of a point may yield.
GarbageCoords == {0, 4}
\* What a call that ran into undefined behaviour may return.
GarbageResults == {0, NumericMax}

SeqsUpTo(S, k) == UNION {[1..len -> S] : len \in 0..k}
NonEmptySeqs(S, k) == SeqsUpTo(S, k) \ {<<>>}
Repeat(p, len) == [idx \in 1..len |-> p]

\* Pairs of non-empty trajectories whose points all have one dimension.
ValidPairs(k) ==
    (NonEmptySeqs(Points1, k) \X NonEmptySeqs(Points1, k))
    \cup (NonEmptySeqs(Points2, k) \X NonEmptySeqs(Points2, k))
\* Two trajectories that each stay at one point, of any two lengths.
LongPairs(k) ==
    {<<Repeat(p, la), Repeat(p2, lb)>> :
        p \in Points1, p2 \in Points1, la \in 1..k, lb \in 1..k}

\* ------------------------------------------------------------ helpers
At(s, k) == s[k + 1]
Max2(x, y) == IF x >= y THEN x ELSE y
Min2(x, y) == IF x <= y THEN x ELSE y
Sqrt(s) == CHOOSE root \in 0..s : root * root <= s /\ s < (root + 1) * (root + 1)

Cells(nn, mm) == (0..(nn - 1)) \X (0..(mm - 1))
ZeroMatrix(nn, mm) == [c \in Cells(nn, mm) |-> 0]

RECURSIVE SumSq(_, _, _)
\* sum over idx < k of (a[idx] - b[idx])^2, the loop of distanceMetric.
SumSq(a, b, k) ==
    IF k = 0 THEN 0
    ELSE SumSq(a, b, k - 1) + (a[k] - b[k]) * (a[k] - b[k])

\* b as the loop over a.size() reads it: its own coordinates, then memory.
Padded(b, k, g) == [idx \in 1..k |-> IF idx <= Len(b) THEN b[idx] ELSE g]

\* The values the loop `for idx < a.size(): sum += (a[idx]-b[idx])^2` can
\* leave in sum: one when b has a.size() coordinates or more, and one per
\* content of the memory behind b otherwise.
SquaredValues(a, b) ==
    IF Len(a) <= Len(b) THEN {SumSq(a, b, Len(a))}
    ELSE {SumSq(a, Padded(b, Len(a), g), Len(a)) : g \in GarbageCoords}

distanceMetric(a, b) == {Sqrt(s) : s \in SquaredValues(a, b)}

\* Whether the loop over a.size() reads past the end of b.
ReadsPastPoint(a, b) == Len(a) > Len(b)

Perms(k) ==
    {p \in [1..k -> 0..(k - 1)] : \A x, y \in 1..k : x # y => p[x] # p[y]}

\* -------------------------------------------------------------- state
VARIABLES
    entry,          \* the entry point called: "frechet" or "hausdorff"
    pc,             \* the statement the call is at
    outcome,        \* "running", "returned", "threw" or "crashed"
    result,         \* the value returned
    inA, inB,       \* the caller's two trajectories as they were passed
    call,           \* 1: the call on (inA, inB); 2: the call on (inB, inA)
    firstOutcome, firstResult,  \* how call 1 ended
    l1, l2,         \* the caller's two vectors, which the call holds by reference
    n, m, q, r,     \* computeDistanceMatrix's lengths, quotient, remainder
    i, j, d,        \* its counters and the last distance
    jMin, iMin,
    diagMax,
    distanceMatrix,
    frechetMatrix,
    assigned,       \* the cells computeDistanceMatrix has assigned
    coreCells,      \* the cells its two core-diagonal loops have assigned
    access,         \* the matrix cell the last step indexed
    indicesA, indicesB,     \* hausdorffDistance's shuffled indices
    cMin, cMax, haveWeBroken,
    ka, kb          \* the positions of its two range-for loops

ctl == <<entry, pc, outcome, result>>
caller == <<inA, inB, call, firstOutcome, firstResult>>
refs == <<l1, l2>>
dims == <<n, m, q, r>>
mats == <<distanceMatrix, frechetMatrix, assigned, coreCells, diagMax>>
hvars == <<indicesA, indicesB, cMin, cMax, haveWeBroken, ka, kb>>
vars == <<entry, pc, outcome, result, inA, inB, call, firstOutcome,
          firstResult, l1, l2, n, m, q, r, i, j, d, jMin, iMin, diagMax,
          distanceMatrix, frechetMatrix, assigned, coreCells, access,
          indicesA, indicesB, cMin, cMax, haveWeBroken, ka, kb>>

\* The locals of a call before its first statement.
Locals(A, B) ==
    /\ l1 = A /\ l2 = B
    /\ n = 0 /\ m = 0 /\ q = 0 /\ r = 0
    /\ i = 0 /\ j = 0 /\ d = Uninit /\ jMin = 0 /\ iMin = 0
    /\ diagMax = 0
    /\ distanceMatrix = ZeroMatrix(0, 0)
    /\ frechetMatrix = ZeroMatrix(0, 0)
    /\ assigned = {} /\ coreCells = {}
    /\ access = <<0, 0>>
    /\ indicesA = <<>> /\ indicesB = <<>>
    /\ cMin = 0 /\ cMax = 0 /\ haveWeBroken = FALSE
    /\ ka = 0 /\ kb = 0

Start(e, A, B) ==
    /\ entry = e /\ pc = "start" /\ outcome = "running" /\ result = 0
    /\ inA = A /\ inB = B
    /\ call = 1 /\ firstOutcome = "running" /\ firstResult = 0
    /\ Locals(A, B)

InitFrechet ==
    \E p \in ValidPairs(MaxLen) \cup LongPairs(MaxLongLen) :
        Start("frechet", p[1], p[2])

InitHausdorff ==
    \E p \in ValidPairs(MaxLenH) : Start("hausdorff", p[1], p[2])

InitErrors ==
    \E e \in {"frechet", "hausdorff"} :
        \E A, B \in SeqsUpTo(PointsMixed, MaxLenE) : Start(e, A, B)

\* ------------------------------------------------- the ends of a call
\* The call aborts while indexing cell c.
Crashed(c) ==
    /\ pc' = "done" /\ outcome' = "crashed" /\ result' = 0
    /\ access' = c
    /\ UNCHANGED <<entry, caller, dims, i, j, d, jMin, iMin, mats, hvars>>

\* The call has run into undefined behaviour while indexing cell c: it
\* aborts, or it returns some value.
Undefined(c) ==
    /\ pc' = "done"
    /\ \E o \in {"crashed", "returned"} :
        /\ outcome' = o
        /\ result' \in (IF o = "crashed" THEN {0} ELSE GarbageResults)
    /\ access' = c
    /\ UNCHANGED <<entry, caller, dims, i, j, d, jMin, iMin, mats, hvars>>

InRange(ii, jj) == ii \in 0..(n - 1) /\ jj \in 0..(m - 1)

\* What evaluating distanceMetric(a, b) can do: return a value, or abort on
\* the read past the end of b.
DistanceOutcomes(a, b) ==
    {<<"value", v>> : v \in distanceMetric(a, b)}
    \cup (IF ReadsPastPoint(a, b) THEN {<<"crash", 0>>} ELSE {})

\* ------------------------------------------- computeDistanceMatrix
\* frechetDistance -> computeFrechetMatrix -> computeDistanceMatrix, to the
\* first core-diagonal loop: the lengths, the swap (of the caller's vectors:
\* l1 and l2 are references), q, r and the zeroed n x m matrix.
Setup ==
    /\ entry = "frechet" /\ pc = "start"
    /\ LET swap == Len(l1) < Len(l2)
           nn == IF swap THEN Len(l2) ELSE Len(l1)
           mm == IF swap THEN Len(l1) ELSE Len(l2)
       IN  /\ l1' = (IF swap THEN l2 ELSE l1)
           /\ l2' = (IF swap THEN l1 ELSE l2)
           /\ IF mm = 0
              THEN Crashed(access)
              ELSE /\ n' = nn /\ m' = mm
                   /\ q' = nn \div mm /\ r' = nn % mm
                   /\ distanceMatrix' = ZeroMatrix(nn, mm)
                   /\ i' = 0 /\ j' = 0 /\ diagMax' = 0
                   /\ pc' = "diag1"
                   /\ UNCHANGED <<entry, outcome, result, caller, d, jMin,
                                  iMin, frechetMatrix, assigned, coreCells,
                                  access, hvars>>

\* j = i / (q + 1), the column of the first core-diagonal loop.
CoreColumn1(ii) == ii \div (q + 1)
\* j = (i - r) / q, the column of the second core-diagonal loop.
CoreColumn2(ii) == (ii - r) \div q
\* The second loop stopping one row early: i <= (n-2).
LastRowShort == n - 2
\* The last row of the second core-diagonal loop: i <= (n-1).
LastRow == n - 1
\* diagMax overwritten by each core distance instead of maximised.
DiagMaxLast(dv) == dv
\* diagMax = std::max(distanceMatrix[i][j], diagMax)
DiagMaxUpdate(dv) == Max2(dv, diagMax)

\* The body of either core-diagonal loop at row ii, column jj.
CoreAssign(ii, jj) ==
    IF ~InRange(ii, jj)
    THEN Undefined(<<ii, jj>>) /\ UNCHANGED refs
    ELSE \E o \in DistanceOutcomes(At(l1, ii), At(l2, jj)) :
            IF o[1] = "crash"
            THEN Crashed(<<ii, jj>>) /\ UNCHANGED refs
            ELSE /\ distanceMatrix' = [distanceMatrix EXCEPT ![<<ii, jj>>] = o[2]]
                 /\ diagMax' = DiagMaxUpdate(o[2])
                 /\ assigned' = assigned \cup {<<ii, jj>>}
                 /\ coreCells' = coreCells \cup {<<ii, jj>>}
                 /\ access' = <<ii, jj>>
                 /\ i' = ii + 1 /\ j' = jj
                 /\ UNCHANGED <<ctl, caller, refs, dims, d, jMin, iMin,
                                frechetMatrix, hvars>>

\* for (i = 0; i <= r * (q + 1); ++i)
Diag1 ==
    /\ entry = "frechet" /\ pc = "diag1"
    /\ IF i <= r * (q + 1)
       THEN CoreAssign(i, CoreColumn1(i))
       ELSE /\ pc' = "diag2" /\ i' = r * (q + 1)
            /\ UNCHANGED <<entry, outcome, result, caller, refs, dims, j, d,
                           jMin, iMin, mats, access, hvars>>

\* for (i = r * (q + 1); i <= (n-1); ++i), then the entry to the next loop.
Diag2 ==
    /\ entry = "frechet" /\ pc = "diag2"
    /\ IF i <= LastRow
       THEN CoreAssign(i, CoreColumn2(i))
       ELSE /\ pc' = "upper" /\ i' = 0 /\ jMin' = 0
            /\ UNCHANGED <<entry, outcome, result, caller, refs, dims, j, d,
                           iMin, mats, access, hvars>>

\* d < diagMax, the test both expansion loops make before they assign.
BelowDiagMax(dv) == dv < diagMax

\* for (i = 0; i <= (n-1); ++i) { j = i; T d; ...
UpperFor ==
    /\ entry = "frechet" /\ pc = "upper"
    /\ IF i <= n - 1
       THEN /\ j' = i /\ d' = Uninit /\ pc' = "upper_while"
            /\ UNCHANGED <<entry, outcome, result, caller, refs, dims, i,
                           jMin, iMin, mats, access, hvars>>
       ELSE /\ pc' = "lower" /\ j' = 0 /\ iMin' = 0
            /\ UNCHANGED <<entry, outcome, result, caller, refs, dims, i, d,
                           jMin, mats, access, hvars>>

\* while ((j < m || d <= diagMax) && j < jMin) { ... }; jMin = j;
\* d is read uninitialised when j >= m on the first test: either answer.
UpperWhile ==
    /\ entry = "frechet" /\ pc = "upper_while"
    /\ \E dLE \in (IF d = Uninit THEN BOOLEAN ELSE {d <= diagMax}) :
        IF (j < m \/ dLE) /\ j < jMin
        THEN IF ~InRange(i, j)
             THEN Undefined(<<i, j>>) /\ UNCHANGED refs
             ELSE \E o \in DistanceOutcomes(At(l1, i), At(l2, j)) :
                    IF o[1] = "crash"
                    THEN Crashed(<<i, j>>) /\ UNCHANGED refs
                    ELSE /\ d' = o[2]
                         /\ IF BelowDiagMax(o[2])
                            THEN /\ distanceMatrix' =
                                      [distanceMatrix EXCEPT ![<<i, j>>] = o[2]]
                                 /\ assigned' = assigned \cup {<<i, j>>}
                                 /\ access' = <<i, j>>
                                 /\ j' = j + 1
                            ELSE UNCHANGED <<distanceMatrix, assigned, access, j>>
                         /\ UNCHANGED <<ctl, caller, refs, dims, i, jMin, iMin,
                                        frechetMatrix, coreCells, diagMax, hvars>>
        ELSE /\ jMin' = j /\ i' = i + 1 /\ pc' = "upper"
             /\ UNCHANGED <<entry, outcome, result, caller, refs, dims, j, d,
                            iMin, mats, access, hvars>>

\* for (j = 0; j <= (m-1); ++j) { i = j; T d = 0.0; ...
LowerFor ==
    /\ entry = "frechet" /\ pc = "lower"
    /\ IF j <= m - 1
       THEN /\ i' = j /\ d' = 0 /\ pc' = "lower_do"
            /\ UNCHANGED <<entry, outcome, result, caller, refs, dims, j,
                           jMin, iMin, mats, access, hvars>>
       ELSE /\ pc' = "fm_init"
            /\ UNCHANGED <<entry, outcome, result, caller, refs, dims, i, j,
                           d, jMin, iMin, mats, access, hvars>>

\* do { d = ...; if (d < diagMax) { distanceMatrix[i][j] = d; i++; } }
\* while ((i < n || d <= diagMax) && (i < iMin)); iMin = i;
LowerDo ==
    /\ entry = "frechet" /\ pc = "lower_do"
    /\ IF ~InRange(i, j)
       THEN Undefined(<<i, j>>) /\ UNCHANGED refs
       ELSE \E o \in DistanceOutcomes(At(l1, i), At(l2, j)) :
              IF o[1] = "crash"
              THEN Crashed(<<i, j>>) /\ UNCHANGED refs
              ELSE LET dv == o[2]
                       ni == IF BelowDiagMax(dv) THEN i + 1 ELSE i
                   IN  /\ d' = dv
                       /\ IF BelowDiagMax(dv)
                          THEN /\ distanceMatrix' =
                                    [distanceMatrix EXCEPT ![<<i, j>>] = dv]
                               /\ assigned' = assigned \cup {<<i, j>>}
                               /\ access' = <<i, j>>
                          ELSE UNCHANGED <<distanceMatrix, assigned, access>>
                       /\ IF (ni < n \/ dv <= diagMax) /\ ni < iMin
                          THEN /\ i' = ni
                               /\ UNCHANGED <<pc, j, iMin>>
                          ELSE /\ iMin' = ni /\ i' = ni /\ j' = j + 1
                               /\ pc' = "lower"
                       /\ UNCHANGED <<entry, outcome, result, caller, refs,
                                      dims, jMin, frechetMatrix, coreCells,
                                      diagMax, hvars>>

\* --------------------------------------------- computeFrechetMatrix
\* The return of computeDistanceMatrix, n and m read back from the (swapped)
\* vectors, the zeroed Frechet matrix and its cell (0, 0).
FrechetInit ==
    /\ entry = "frechet" /\ pc = "fm_init"
    /\ frechetMatrix' =
          [ZeroMatrix(Len(l1), Len(l2)) EXCEPT ![<<0, 0>>] = distanceMatrix[<<0, 0>>]]
    /\ n' = Len(l1) /\ m' = Len(l2)
    /\ i' = 1 /\ j' = 0 /\ jMin' = 0
    /\ access' = <<0, 0>>
    /\ pc' = "row"
    /\ UNCHANGED <<entry, outcome, result, caller, refs, q, r, d, iMin,
                   diagMax, distanceMatrix, assigned, coreCells, hvars>>

\* for (i = 1; i <= (n-1); ++i) { j = jMin; ...
RowFor ==
    /\ entry = "frechet" /\ pc = "row"
    /\ IF i <= n - 1
       THEN /\ j' = jMin /\ pc' = "skip"
       ELSE /\ pc' = "ret" /\ UNCHANGED j
    /\ UNCHANGED <<entry, outcome, result, caller, refs, dims, i, d, jMin,
                   iMin, mats, access, hvars>>

\* What the read of distanceMatrix[i][jj] past the end of row i can do:
\* abort, or find a non-zero value, or (while memory lasts) find zero.
PastRowReads(jj) ==
    {"crash", "nonzero"} \cup (IF jj < m + MaxOverrun THEN {"zero"} ELSE {})

\* One test of `while (distanceMatrix[i][j] == 0) j++;`, and jMin = j after it.
Skip ==
    /\ entry = "frechet" /\ pc = "skip"
    /\ \E v \in (IF InRange(i, j)
                 THEN {IF distanceMatrix[<<i, j>>] = 0 THEN "zero" ELSE "nonzero"}
                 ELSE PastRowReads(j)) :
        IF v = "crash"
        THEN Crashed(<<i, j>>) /\ UNCHANGED refs
        ELSE /\ access' = <<i, j>>
             /\ IF v = "zero"
                THEN /\ j' = j + 1 /\ UNCHANGED <<pc, jMin>>
                ELSE /\ jMin' = j /\ pc' = "sweep" /\ UNCHANGED j
             /\ UNCHANGED <<entry, outcome, result, caller, refs, dims, i, d,
                            iMin, mats, hvars>>

\* minimum, from the (at most three) predecessors whose distance is not 0,
\* and frechetMatrix[i][j] = std::max(minimum, distanceMatrix[i][j]).
FrechetCell(ii, jj) ==
    LET m0 == NumericMax
        m1 == IF ii > 0 /\ jj > 0 /\ distanceMatrix[<<ii - 1, jj - 1>>] # 0
              THEN frechetMatrix[<<ii - 1, jj - 1>>] ELSE m0
        m2 == IF ii > 0 /\ distanceMatrix[<<ii - 1, jj>>] # 0
              THEN Min2(m1, frechetMatrix[<<ii - 1, jj>>]) ELSE m1
        m3 == IF jj > 0 /\ distanceMatrix[<<ii, jj - 1>>] # 0
              THEN Min2(m2, frechetMatrix[<<ii, jj - 1>>]) ELSE m2
    IN  Max2(m3, distanceMatrix[<<ii, jj>>])

\* One test of `while (distanceMatrix[i][j] != 0 && j < m)` and, when it
\* holds, the body.  The matrix is read before j < m is tested: at j = m the
\* read is past the end of the row, and whatever it finds the loop ends.
Sweep ==
    /\ entry = "frechet" /\ pc = "sweep"
    /\ \E v \in (IF InRange(i, j)
                 THEN {IF distanceMatrix[<<i, j>>] = 0 THEN "zero" ELSE "nonzero"}
                 ELSE {"crash", "nonzero", "zero"}) :
        IF v = "crash"
        THEN Crashed(<<i, j>>) /\ UNCHANGED refs
        ELSE /\ access' = <<i, j>>
             /\ IF v = "nonzero" /\ j < m
                THEN /\ frechetMatrix' =
                          [frechetMatrix EXCEPT ![<<i, j>>] = FrechetCell(i, j)]
                     /\ j' = j + 1
                     /\ UNCHANGED <<pc, i>>
                ELSE /\ i' = i + 1 /\ pc' = "row"
                     /\ UNCHANGED <<frechetMatrix, j>>
             /\ UNCHANGED <<entry, outcome, result, caller, refs, dims, d,
                            jMin, iMin, distanceMatrix, assigned, coreCells,
                            diagMax, hvars>>

\* return frechetMatrix[ l1.size() - 1 ][ l2.size() - 1 ];
Return ==
    /\ entry = "frechet" /\ pc = "ret"
    /\ result' = frechetMatrix[<<Len(l1) - 1, Len(l2) - 1>>]
    /\ access' = <<Len(l1) - 1, Len(l2) - 1>>
    /\ outcome' = "returned" /\ pc' = "done"
    /\ UNCHANGED <<entry, caller, refs, dims, i, j, d, jMin, iMin, mats, hvars>>

\* A second call, frechetDistance(B, A), on fresh copies of the arguments of
\* the first, frechetDistance(A, B).
SecondCall ==
    /\ entry = "frechet" /\ pc = "done" /\ call = 1
    /\ call' = 2 /\ firstOutcome' = outcome /\ firstResult' = result
    /\ pc' = "start" /\ outcome' = "running" /\ result' = 0
    /\ l1' = inB /\ l2' = inA
    /\ n' = 0 /\ m' = 0 /\ q' = 0 /\ r' = 0
    /\ i' = 0 /\ j' = 0 /\ d' = Uninit /\ jMin' = 0 /\ iMin' = 0
    /\ diagMax' = 0
    /\ distanceMatrix' = ZeroMatrix(0, 0)
    /\ frechetMatrix' = ZeroMatrix(0, 0)
    /\ assigned' = {} /\ coreCells' = {}
    /\ access' = <<0, 0>>
    /\ UNCHANGED <<entry, inA, inB, hvars>>

\* ------------------------------------------------ hausdorffDistance
\* The copies, the emptiness check, the two shuffles and cMin = cMax = 0.
HStart ==
    /\ entry = "hausdorff" /\ pc = "start"
    /\ IF inA = <<>> \/ inB = <<>>
       THEN /\ pc' = "done" /\ outcome' = "threw"
            /\ UNCHANGED <<result, hvars>>
       ELSE /\ indicesA' \in Perms(Len(inA))
            /\ indicesB' \in Perms(Len(inB))
            /\ cMin' = 0 /\ cMax' = 0 /\ haveWeBroken' = FALSE
            /\ ka' = 1 /\ kb' = 0
            /\ pc' = "h_outer"
            /\ UNCHANGED <<outcome, result>>
    /\ UNCHANGED <<entry, caller, refs, dims, i, j, d, jMin, iMin, mats, access>>

\* for (int indexA : indicesA) { haveWeBroken = false; cMin = infinity; ...
HOuter ==
    /\ entry = "hausdorff" /\ pc = "h_outer"
    /\ IF ka <= Len(indicesA)
       THEN /\ haveWeBroken' = FALSE /\ cMin' = Infinity /\ kb' = 1
            /\ pc' = "h_inner"
       ELSE /\ pc' = "h_ret" /\ UNCHANGED <<haveWeBroken, cMin, kb>>
    /\ UNCHANGED <<entry, outcome, result, caller, refs, dims, i, j, d, jMin,
                   iMin, mats, access, indicesA, indicesB, cMax, ka>>

\* What the coordinate loop of the inner body can do: leave a squared
\* distance in d, or abort on the read past the end of the point of b.
SquaredOutcomes(a, b) ==
    {<<"value", v>> : v \in SquaredValues(a, b)}
    \cup (IF ReadsPastPoint(a, b) THEN {<<"crash", 0>>} ELSE {})

\* if (d < cMax): the early termination of the inner loop.
EarlyTermination(dv) == dv < cMax

\* for (int indexB : indicesB) { d = ...; if (d < cMax) { break; } ... }
HInner ==
    /\ entry = "hausdorff" /\ pc = "h_inner"
    /\ IF kb <= Len(indicesB)
       THEN \E o \in SquaredOutcomes(At(inA, indicesA[ka]), At(inB, indicesB[kb])) :
              IF o[1] = "crash"
              THEN Crashed(access) /\ UNCHANGED refs
              ELSE /\ d' = o[2]
                   /\ IF EarlyTermination(o[2])
                      THEN /\ haveWeBroken' = TRUE /\ pc' = "h_after"
                           /\ UNCHANGED <<cMin, kb>>
                      ELSE /\ cMin' = Min2(o[2], cMin) /\ kb' = kb + 1
                           /\ UNCHANGED <<haveWeBroken, pc>>
                   /\ UNCHANGED <<entry, outcome, result, caller, refs, dims,
                                  i, j, jMin, iMin, mats, access, indicesA,
                                  indicesB, cMax, ka>>
       ELSE /\ pc' = "h_after"
            /\ UNCHANGED <<entry, outcome, result, caller, refs, dims, i, j,
                           d, jMin, iMin, mats, access, hvars>>

\* The update made whether or not the inner loop was left early.
UpdatedMaxAlways == IF cMin # Infinity /\ cMin >= cMax THEN cMin ELSE cMax
\* if ( isfinite(cMin) && cMin >= cMax && !haveWeBroken ) cMax = cMin;
UpdatedMax ==
    IF cMin # Infinity /\ cMin >= cMax /\ ~haveWeBroken THEN cMin ELSE cMax

HAfter ==
    /\ entry = "hausdorff" /\ pc = "h_after"
    /\ cMax' = UpdatedMax
    /\ ka' = ka + 1 /\ pc' = "h_outer"
    /\ UNCHANGED <<entry, outcome, result, caller, refs, dims, i, j, d, jMin,
                   iMin, mats, access, indicesA, indicesB, cMin, haveWeBroken, kb>>

\* return std::sqrt(cMax);
HReturn ==
    /\ entry = "hausdorff" /\ pc = "h_ret"
    /\ result' = Sqrt(cMax) /\ outcome' = "returned" /\ pc' = "done"
    /\ UNCHANGED <<entry, caller, refs, dims, i, j, d, jMin, iMin, mats,
                   access, hvars>>

\* ----------------------------------------------------- specifications
NextFrechet ==
    \/ Setup \/ Diag1 \/ Diag2 \/ UpperFor \/ UpperWhile \/ LowerFor
    \/ LowerDo \/ FrechetInit \/ RowFor \/ Skip \/ Sweep \/ Return

NextHausdorff == HStart \/ HOuter \/ HInner \/ HAfter \/ HReturn

NextSymmetry == NextFrechet \/ SecondCall

Next == NextFrechet \/ NextHausdorff

\* One call of frechetDistance on valid inputs.
SpecFrechet == InitFrechet /\ [][NextFrechet]_vars
\* frechetDistance(A, B), then frechetDistance(B, A), on valid inputs.
SpecSymmetry == InitFrechet /\ [][NextSymmetry]_vars
\* One call of hausdorffDistance on valid inputs, under every shuffle.
SpecHausdorff == InitHausdorff /\ [][NextHausdorff]_vars
\* One call of either entry point on inputs that may be empty or of mixed
\* dimensionality.
Spec == InitErrors /\ [][Next]_vars

\* ------------------------------------------------------------- claims
Done == pc = "done"
Returned == pc = "done" /\ outcome = "returned"

MinOf(S) == CHOOSE x \in S : \A y \in S : x <= y
MaxOf(S) == CHOOSE x \in S : \A y \in S : x >= y
Indices(s) == 0..(Len(s) - 1)

\* The squared Euclidean distance of two points of one dimensionality.
SquaredDistance(a, b) == SumSq(a, b, Len(a))
\* The Euclidean distance of point ii of l1 and point jj of l2.
Distance(ii, jj) == Sqrt(SquaredDistance(At(l1, ii), At(l2, jj)))

\* max over a in A of ( min over b in B of the squared distance of a and b )
DirectedHausdorffSquared(A, B) ==
    MaxOf({MinOf({SquaredDistance(At(A, x), At(B, y)) : y \in Indices(B)}) :
              x \in Indices(A)})

\* C1: on non-empty trajectories of one dimensionality hausdorffDistance
\* returns, under every pair of shuffles of the indices of A and of B, the
\* square root of max over a of min over b of the squared distance.
C1_HausdorffIsMaxMin ==
    (entry = "hausdorff" /\ Done) =>
        /\ outcome = "returned"
        /\ result = Sqrt(DirectedHausdorffSquared(inA, inB))

\* C1's case: a call that ran under two shuffles other than the identity,
\* broke out of the inner loop for the last point of A, and returned a
\* distance above 0.
C1_Witness ==
    /\ entry = "hausdorff" /\ Returned
    /\ indicesA = <<1, 0>> /\ indicesB = <<1, 0>>
    /\ haveWeBroken /\ result > 0

\* C2: frechetDistance(A, A) completes and returns 0, for every A of at
\* least one point.
C2_SelfDistanceIsZero ==
    (entry = "frechet" /\ Done /\ inA = inB) =>
        (outcome = "returned" /\ result = 0)

\* C3: frechetDistance(A, B) equals frechetDistance(B, A): when the first
\* call has returned a value, the second returns the same value.
C3_Symmetric ==
    (entry = "frechet" /\ Done /\ call = 2 /\ firstOutcome = "returned") =>
        (outcome = "returned" /\ result = firstResult)

\* No two points the band compares coincide: every assigned cell of the
\* distance matrix holds a distance above 0, so none reads as unset.
NoCoincidentPoints == \A c \in assigned : distanceMatrix[c] # 0

\* C4 as claimed, on the inputs whose band is free of coincident points: the value
\* frechetDistance returns is at least diagMax.
C4_AtLeastDiagMax ==
    (entry = "frechet" /\ Returned /\ NoCoincidentPoints) => result >= diagMax

\* C4 as amended: a value frechetDistance returns is at most diagMax, or is
\* numeric_limits<T>::max() - 1.
C4_AtMostDiagMax ==
    (entry = "frechet" /\ Returned) =>
        (result <= diagMax \/ result = NumericMax)

\* C4's case: a call on trajectories without coincident points that
\* returned a value strictly below diagMax.
C4_Witness ==
    /\ entry = "frechet" /\ Returned /\ NoCoincidentPoints
    /\ 0 < result /\ result < diagMax

\* C5: a call with an empty trajectory, or with two points of different
\* dimensionality, ends in an error before any distance or matrix work: it
\* is at no statement but its first or its end, and it returns no value.
Invalid ==
    \/ inA = <<>> \/ inB = <<>>
    \/ \E x \in Indices(inA), y \in Indices(inB) : Len(At(inA, x)) # Len(At(inB, y))

C5_InvalidInputRejected ==
    Invalid => (pc \in {"start", "done"} /\ ~Returned)

\* The two core-diagonal loops have run to their end.
AfterCore == entry = "frechet" /\ pc \notin {"start", "diag1", "diag2"}

\* C6: the core-diagonal loops assign (0, 0) and (n-1, m-1) and exactly one
\* column per row, and the column does not fall and rises by at most 1 from
\* one row to the next.
C6_CoreDiagonal ==
    AfterCore =>
        /\ <<0, 0>> \in coreCells /\ <<n - 1, m - 1>> \in coreCells
        /\ coreCells \subseteq Cells(n, m)
        /\ \A ii \in 0..(n - 1) :
              Cardinality({c \in coreCells : c[1] = ii}) = 1
        /\ \A c1, c2 \in coreCells :
              c2[1] = c1[1] + 1 => (c2[2] = c1[2] \/ c2[2] = c1[2] + 1)

\* C6's case: n = 5, m = 2 (q = 2, r = 1: both loops assign rows), the core
\* diagonal complete with the terminal cell (4, 1).
C6_Witness ==
    /\ AfterCore /\ n = 5 /\ m = 2
    /\ coreCells = {<<0, 0>>, <<1, 0>>, <<2, 0>>, <<3, 1>>, <<4, 1>>}

\* The least, over the monotone paths from (0, 0) to c through assigned
\* cells only, of the largest distance on the path; NumericMax: no path.
BandMinimax[c \in Cells(n, m)] ==
    IF c \notin assigned THEN NumericMax
    ELSE IF c = <<0, 0>> THEN Distance(0, 0)
    ELSE LET steps == {<<c[1] - 1, c[2] - 1>>, <<c[1] - 1, c[2]>>, <<c[1], c[2] - 1>>}
             preds == {p \in steps : p[1] >= 0 /\ p[2] >= 0}
         IN  Max2(Distance(c[1], c[2]),
                  MinOf({BandMinimax[p] : p \in preds} \cup {NumericMax}))

\* C7: the value frechetDistance returns is the least, over the monotone
\* paths from (0, 0) to (n-1, m-1) through cells set in the banded matrix,
\* of the largest distance on the path.
C7_MinimaxOverBand ==
    (entry = "frechet" /\ Returned) => result = BandMinimax[<<n - 1, m - 1>>]

\* C7 on the inputs free of coincident points.
C7_MinimaxWithoutCoincidence ==
    (entry = "frechet" /\ Returned /\ NoCoincidentPoints) =>
        result = BandMinimax[<<n - 1, m - 1>>]

\* computeDistanceMatrix has run to its end.
AfterBand ==
    entry = "frechet" /\ pc \in {"fm_init", "row", "skip", "sweep", "ret"}

CoreColumnOf(ii) == CHOOSE jj \in 0..(m - 1) : <<ii, jj>> \in coreCells

\* C8: after computeDistanceMatrix every row holds the exact distances to
\* the right of its core cell up to the first one that is >= diagMax, and
\* every column those below its starting cell (j, j) likewise.
C8_BandExpanded ==
    AfterBand =>
        /\ \A ii \in 0..(n - 1) : \A jj \in (CoreColumnOf(ii) + 1)..(m - 1) :
              (\A k \in (CoreColumnOf(ii) + 1)..jj : Distance(ii, k) < diagMax)
                  => distanceMatrix[<<ii, jj>>] = Distance(ii, jj)
        /\ \A jj \in 0..(m - 1) : \A ii \in (jj + 1)..(n - 1) :
              (\A k \in (jj + 1)..ii : Distance(k, jj) < diagMax)
                  => distanceMatrix[<<ii, jj>>] = Distance(ii, jj)

\* C9: every index into distanceMatrix and frechetMatrix is within
\* 0 <= i < n and 0 <= j < m.
C9_IndicesInRange ==
    (entry = "frechet" /\ pc # "start") => InRange(access[1], access[2])

\* C10: when frechetDistance(l1, l2) has returned, the caller's l1 and l2
\* hold what they held before the call.
C10_ArgumentsUnchanged ==
    (entry = "frechet" /\ Returned /\ call = 1) => (l1 = inA /\ l2 = inB)
====
